---------------------------- MODULE Spec2Model ----------------------------
(***************************************************************************)
(* A model of the ingestion-to-retrieval pipeline of local-gpt's backend:  *)
(* the chunker (rag_routes._chunk_text), the extractor                      *)
(* (file_extract.extract_text_from_file), the vector store wrapper          *)
(* (vectorstore.py), the legacy store path (tools/rag.py) and the upload    *)
(* handler (rag_routes.rag_upload).                                         *)
(*                                                                          *)
(* Text is a sequence of one-character strings.  Indices into a text are    *)
(* 0-based, as in the Python source: text[s:e] is Slice(text, s, e).        *)
(***************************************************************************)
EXTENDS Integers, Sequences, FiniteSets, TLC

VARIABLES
    \* ---- one run of _chunk_text, one loop iteration per step
    craw,       \* the text argument
    cparams,    \* [chunk_size, overlap, min_chunk_chars]
    ctext,      \* text after _clean_text
    cstart,     \* start
    cchunks,    \* chunks
    cwins,      \* history: every window examined, [s, e, kept]
    cpc,        \* "loop" (at the while test), "done" (returned)
    ccount,     \* len(chunks) where the list itself is not followed
    \* ---- one call of extract_text_from_file
    xfile,      \* the file at path
    xcaps,      \* the parsing modules that can be imported
    xres,       \* what the call gave: [raised, text, meta]
    xpc,        \* "call", "returned", "raised"
    \* ---- the backend process and the store directory (vectorstore.py)
    procUp,     \* the process is running
    embedFn,    \* EMBED_FN: "onnx", "st" or "none"
    client,     \* _client: 0 (None) or the client object
    collections,\* _collections: name -> collection handle
    disk,       \* RAG_DB_PATH: name -> [space, records], kept across restarts
    nextId,     \* source of uuid4 values
    nextObj,    \* source of object identities
    made,       \* history: clients and collection handles constructed
    lastCall,   \* history: the last call of the store API and what it gave
    envSet,     \* RAG_DB_PATH is set in the environment
    legacyDisk, \* the directory of tools/rag.py when it is not RAG_DB_PATH's
    \* ---- threads inside _get_collection
    tpc,        \* thread -> the line it is at
    tname,      \* thread -> name
    tcl,        \* thread -> the client _client_once returned
    tcol,       \* thread -> col
    \* ---- rag_upload
    upPc,         \* where the request handler is
    upFiles,      \* candidates
    upIdx,        \* the candidate the loop is at
    upCollection, \* collection
    indexed,      \* indexed
    totalChunks,  \* total_chunks
    upStatus,     \* the status code answered, 0 before
    uploadDir,    \* the files of UPLOAD_DIR
    nextSave,     \* source of the uuid of safe_name
    upCount,      \* requests begun
    upLast,       \* history: what the loop did with the last candidate
    \* ---- rag_upload, several requests on the event loop
    reqs,         \* request -> where its handler is and its locals
    addLog        \* history: the add_docs calls that stored, in order of completion

chunkVars == <<craw, cparams, ctext, cstart, cchunks, cwins, cpc, ccount>>

extractVars == <<xfile, xcaps, xres, xpc>>

storeVars == <<procUp, embedFn, client, collections, disk, nextId, nextObj, made, lastCall>>

legacyVars == <<envSet, legacyDisk>>

threadVars == <<tpc, tname, tcl, tcol>>

uploadVars == <<upPc, upFiles, upIdx, upCollection, indexed, totalChunks, upStatus,
                uploadDir, nextSave, upCount, upLast, reqs, addLog>>

concurrentVars == <<reqs, addLog>>

vars == <<craw, cparams, ctext, cstart, cchunks, cwins, cpc, ccount,
          xfile, xcaps, xres, xpc,
          procUp, embedFn, client, collections, disk, nextId, nextObj, made, lastCall,
          envSet, legacyDisk, tpc, tname, tcl, tcol,
          upPc, upFiles, upIdx, upCollection, indexed, totalChunks, upStatus,
          uploadDir, nextSave, upCount, upLast>>

----------------------------------------------------------------------------
(* Python string primitives                                                 *)

Max2(a, b) == IF a >= b THEN a ELSE b

Min2(a, b) == IF a <= b THEN a ELSE b

SetMax(S) == CHOOSE x \in S : (x + 1) \notin S /\ \A y \in S : y <= x

SetMin(S) == CHOOSE x \in S : (x - 1) \notin S /\ \A y \in S : x <= y

Rep(c, k) == [i \in 1..k |-> c]

\* characters str.strip() removes (within the model's alphabet)
IsSpace(c) == c \in {" ", "\n", "\r", "\t"}

\* text[s:e] for 0 <= s, e <= len(text)
Slice(t, s, e) == SubSeq(t, s + 1, e)

\* str.strip()
Strip(t) ==
    LET n == Len(t)
    IN  IF \A i \in 1..n : IsSpace(t[i]) THEN <<>>
        ELSE LET first == CHOOSE i \in 1..n :
                              ~IsSpace(t[i]) /\ \A j \in 1..(i - 1) : IsSpace(t[j])
                 last  == CHOOSE i \in 1..n :
                              ~IsSpace(t[i]) /\ \A j \in (i + 1)..n : IsSpace(t[j])
             IN  SubSeq(t, first, last)

\* text.rfind(c, s, e): the highest 0-based index in [s, e) holding c, or -1
RFind(t, c, s, e) ==
    LET hits == {i \in s..(e - 1) : t[i + 1] = c}
    IN  IF hits = {} THEN -1 ELSE SetMax(hits)

\* s.replace("\r\n", "\n").replace("\r", "\n"): the "\n" of a "\r\n" pair goes,
\* every "\r" becomes "\n"
NormalizeNewlines(t) ==
    IF \A i \in 1..Len(t) : t[i] # "\r" THEN t
    ELSE LET idx  == [i \in 1..Len(t) |-> <<i, t[i]>>]
             kept == SelectSeq(idx, LAMBDA p :
                        ~(p[2] = "\n" /\ p[1] > 1 /\ t[p[1] - 1] = "\r"))
         IN  [k \in 1..Len(kept) |-> IF kept[k][2] = "\r" THEN "\n" ELSE kept[k][2]]

\* "\n".join(ln.strip() for ln in s.split("\n")).strip() on a text without "\r":
\* a blank (space, tab) survives iff its own line has a solid character on both
\* sides of it; a "\n" survives iff the text has a solid character on both sides.
StripLines(t) ==
    LET n      == Len(t)
        solid  == {i \in 1..n : ~IsSpace(t[i])}
        breaks == {i \in 1..n : t[i] = "\n"}
        first  == SetMin(solid)
        last   == SetMax(solid)
        Before(i) == LET s == {j \in solid : j < i}
                         b == {j \in breaks : j < i}
                     IN  s # {} /\ (b = {} \/ SetMax(b) < SetMax(s))
        After(i)  == LET s == {j \in solid : j > i}
                         b == {j \in breaks : j > i}
                     IN  s # {} /\ (b = {} \/ SetMin(s) < SetMin(b))
        Keep(i)   == IF ~IsSpace(t[i]) THEN TRUE
                     ELSE IF t[i] = "\n" THEN first < i /\ i < last
                     ELSE Before(i) /\ After(i)
        idx    == [i \in 1..n |-> <<i, t[i]>>]
        kept   == SelectSeq(idx, LAMBDA p : Keep(p[1]))
    IN  IF solid = {} THEN <<>>
        ELSE IF solid = 1..n THEN t
        ELSE [k \in 1..Len(kept) |-> kept[k][2]]

\* _clean_text
CleanText(s) ==
    IF s = <<>> THEN <<>> ELSE StripLines(NormalizeNewlines(s))

----------------------------------------------------------------------------
(* _chunk_text                                                              *)

\* chunk_size, overlap and min_chunk_chars when the caller gives none
DEFAULT_CHUNK_SIZE == 1200
DEFAULT_OVERLAP == 200
DEFAULT_MIN_CHUNK_CHARS == 40
\* a whitespace cut is taken only beyond start + MIN_CUT_GAP
MIN_CUT_GAP == 100
\* the loop leaves once more than MAX_CHUNKS chunks are held
MAX_CHUNKS == 50000

\* lines 40-46: the window's end, moved back to a whitespace cut when one
\* lies far enough from start
WindowEnd(text, start, chunk_size) ==
    LET n    == Len(text)
        end0 == Min2(n, start + chunk_size)
    IN  IF end0 < n
        THEN LET cut_nl == RFind(text, "\n", start, end0)
                 cut_sp == RFind(text, " ", start, end0)
                 cut    == Max2(cut_nl, cut_sp)
             IN  IF cut # -1 /\ cut > start + MIN_CUT_GAP THEN cut ELSE end0
        ELSE end0

\* line 47
ChunkOf(text, start, end) == Strip(Slice(text, start, end))

\* lines 48-49 with every window kept
Emitted_Always(chunk, min_chunk_chars) == TRUE

\* lines 48-49
Emitted(chunk, min_chunk_chars) == Len(chunk) >= min_chunk_chars

\* line 52 with the start put one past the window's end
NextStart_Skip(end, overlap) == Max2(end - overlap, 0) + overlap + 1

\* line 52
NextStart(end, overlap) == Max2(end - overlap, 0)

\* line 53
LimitHit(chunks) == Len(chunks) > MAX_CHUNKS

\* the whole of _chunk_text after cleaning: the loop of lines 39-54 from start
RECURSIVE ChunkLoop(_, _, _, _, _, _)
ChunkLoop(text, start, chunks, chunk_size, overlap, min_chunk_chars) ==
    IF ~(start < Len(text)) THEN chunks
    ELSE LET end     == WindowEnd(text, start, chunk_size)
             chunk   == ChunkOf(text, start, end)
             chunks2 == IF Emitted(chunk, min_chunk_chars)
                        THEN Append(chunks, chunk) ELSE chunks
         IN  IF end >= Len(text) THEN chunks2
             ELSE IF LimitHit(chunks2) THEN chunks2
             ELSE ChunkLoop(text, NextStart(end, overlap), chunks2,
                            chunk_size, overlap, min_chunk_chars)

\* _chunk_text(text, chunk_size, overlap, min_chunk_chars)
ChunkText(text, chunk_size, overlap, min_chunk_chars) ==
    LET t == CleanText(text)
    IN  IF t = <<>> THEN <<>>
        ELSE ChunkLoop(t, 0, <<>>, chunk_size, overlap, min_chunk_chars)

----------------------------------------------------------------------------
(* One call of _chunk_text, a loop iteration per step                       *)

\* iterations followed per call
MaxIters == 5

WordLens == {1, 45, 105}

Seps == { <<>>, <<" ">>, <<"\n">>, <<" ", "\r", "\n", " ">> }

\* the texts a call is given: three words and the whitespace between them,
\* some with whitespace around
ChunkTexts ==
    { Rep("a", a) \o s1 \o Rep("b", b) \o s2 \o Rep("c", c) :
        a \in WordLens, b \in WordLens, c \in WordLens, s1 \in Seps, s2 \in Seps }
    \cup { <<>>, <<" ", "\n">>, <<"\n", " ">> \o Rep("a", 45) \o <<"\t", "\r">> }

\* the parameters a call is given, each with 0 <= overlap < chunk_size
ChunkParams ==
    { [chunk_size |-> cs, overlap |-> ov, min_chunk_chars |-> mn] :
        cs \in {110, 150}, ov \in {0, 20, 105}, mn \in {DEFAULT_MIN_CHUNK_CHARS, 106} }

IdleChunk ==
    /\ craw = <<>>
    /\ cparams = [chunk_size |-> DEFAULT_CHUNK_SIZE, overlap |-> DEFAULT_OVERLAP,
                  min_chunk_chars |-> DEFAULT_MIN_CHUNK_CHARS]
    /\ ctext = <<>>
    /\ cstart = 0
    /\ cchunks = <<>>
    /\ cwins = <<>>
    /\ cpc = "idle"
    /\ ccount = 0

\* lines 33-38: the call, up to the first while test
InitChunk ==
    /\ craw \in ChunkTexts
    /\ cparams \in ChunkParams
    /\ ctext = CleanText(craw)
    /\ cstart = 0
    /\ cchunks = <<>>
    /\ cwins = <<>>
    /\ cpc = IF ctext = <<>> THEN "done" ELSE "loop"
    /\ ccount = 0

\* lines 39-54: one iteration of the while loop
ChunkIter ==
    /\ cpc = "loop"
    /\ Len(cwins) < MaxIters
    /\ IF ~(cstart < Len(ctext))
       THEN /\ cpc' = "done"
            /\ UNCHANGED <<cstart, cchunks, cwins>>
       ELSE LET end     == WindowEnd(ctext, cstart, cparams.chunk_size)
                chunk   == ChunkOf(ctext, cstart, end)
                keep    == Emitted(chunk, cparams.min_chunk_chars)
                chunks2 == IF keep THEN Append(cchunks, chunk) ELSE cchunks
            IN  /\ cchunks' = chunks2
                /\ cwins' = Append(cwins, [s |-> cstart, e |-> end, kept |-> keep,
                                           at |-> IF keep THEN Len(chunks2) ELSE 0])
                /\ IF end >= Len(ctext)
                   THEN cpc' = "done" /\ cstart' = cstart
                   ELSE /\ cstart' = NextStart(end, cparams.overlap)
                        /\ cpc' = IF LimitHit(chunks2) THEN "done" ELSE "loop"
    /\ ccount' = Len(cchunks')
    /\ UNCHANGED <<craw, cparams, ctext>>

----------------------------------------------------------------------------
(* One call of _chunk_text followed to its end, chunks counted              *)

\* line 53 on len(chunks)
LimitHitCount(count) == count > MAX_CHUNKS

\* a text whose second window starts where the first did, and texts that end
LimitTexts ==
    { Rep("a", 101) \o <<" ">> \o Rep("b", 9),
      Rep("a", 45) \o <<" ">> \o Rep("b", 45),
      Rep("a", 105) \o Rep("b", 105) }

LimitParams ==
    { [chunk_size |-> 110, overlap |-> ov, min_chunk_chars |-> mn] :
        ov \in {20, 105}, mn \in {DEFAULT_MIN_CHUNK_CHARS, 106} }

\* lines 33-38, as InitChunk
InitLimit ==
    /\ craw \in LimitTexts
    /\ cparams \in LimitParams
    /\ ctext = CleanText(craw)
    /\ cstart = 0
    /\ cchunks = <<>>
    /\ cwins = <<>>
    /\ cpc = IF ctext = <<>> THEN "done" ELSE "loop"
    /\ ccount = 0

\* lines 39-54: one iteration of the while loop, of chunks only its length
ChunkCount ==
    /\ cpc = "loop"
    /\ IF ~(cstart < Len(ctext))
       THEN /\ cpc' = "done"
            /\ UNCHANGED <<cstart, ccount>>
       ELSE LET end    == WindowEnd(ctext, cstart, cparams.chunk_size)
                chunk  == ChunkOf(ctext, cstart, end)
                count2 == IF Emitted(chunk, cparams.min_chunk_chars)
                          THEN ccount + 1 ELSE ccount
            IN  /\ ccount' = count2
                /\ IF end >= Len(ctext)
                   THEN cpc' = "done" /\ cstart' = cstart
                   ELSE /\ cstart' = NextStart(end, cparams.overlap)
                        /\ cpc' = IF LimitHitCount(count2) THEN "done" ELSE "loop"
    /\ UNCHANGED <<craw, cparams, ctext, cchunks, cwins>>

----------------------------------------------------------------------------
(* file_extract.py                                                          *)

\* a byte that is not valid UTF-8
BAD == "BAD"

\* None where a text is expected (a cell without a value)
NONE == <<"None">>

\* an optional list argument: None, or the list
NoList == [none |-> TRUE, list |-> <<>>]

SomeList(l) == [none |-> FALSE, list |-> l]

Str(name) ==
    CASE name = "sheet" -> <<"#", " ", "S", "h", "e", "e", "t", ":", " ">>

RECURSIVE Join(_, _)
\* sep.join(parts)
Join(parts, sep) ==
    IF parts = <<>> THEN <<>>
    ELSE IF Len(parts) = 1 THEN parts[1]
    ELSE parts[1] \o sep \o Join(Tail(parts), sep)

\* os.path.splitext(path)[1].lower()
LowerExt(ext) ==
    CASE ext = ".TXT" -> ".txt"
      [] ext = ".Pdf" -> ".pdf"
      [] ext = ".DOCX" -> ".docx"
      [] OTHER -> ext

\* _safe_decode: utf-8 with errors="ignore" drops the invalid bytes and never fails
SafeDecode(b) == SelectSeq(b, LAMBDA c : c # BAD)

\* _read_txt, _read_md, _read_csv: open() fails on an unreadable file
ReadTxt(f) ==
    IF ~f.readable THEN [raised |-> TRUE, text |-> <<>>]
    ELSE [raised |-> FALSE, text |-> SafeDecode(f.bytes)]

\* one row of a sheet: " ".join("" if v is None else str(v) for v in row)
RowText(row) ==
    Join([i \in 1..Len(row) |-> IF row[i] = NONE THEN <<>> ELSE row[i]], <<" ">>)

\* the lines _read_xlsx collects for one sheet
SheetLines(sh) ==
    <<Str("sheet") \o sh.title>> \o [i \in 1..Len(sh.rows) |-> RowText(sh.rows[i])]

RECURSIVE Flatten(_)
Flatten(ss) == IF ss = <<>> THEN <<>> ELSE Head(ss) \o Flatten(Tail(ss))

\* _read_xlsx: no openpyxl, or any failure of load_workbook, gives ""
ReadXlsx(f, caps) ==
    IF "openpyxl" \notin caps THEN <<>>
    ELSE IF ~f.readable \/ ~f.wellformed THEN <<>>
    ELSE Join(Flatten([i \in 1..Len(f.sheets) |-> SheetLines(f.sheets[i])]), <<"\n">>)

\* _read_docx: no python-docx, or any failure of docx.Document, gives ""
ReadDocx(f, caps) ==
    IF "docx" \notin caps THEN <<>>
    ELSE IF ~f.readable \/ ~f.wellformed THEN <<>>
    ELSE Join(f.paras, <<"\n">>)

\* _read_pdf_pymupdf: (text, is_likely_scanned, pages)
ReadPdfPymupdf(f, caps) ==
    IF "fitz" \notin caps
    THEN [text |-> <<>>, scanned |-> FALSE, pages |-> 0]
    ELSE IF ~f.readable \/ ~f.wellformed
    THEN [text |-> <<>>, scanned |-> FALSE, pages |-> 0]
    ELSE IF \E i \in 1..Len(f.pages) : f.pages[i].broken
    THEN [text |-> <<>>, scanned |-> FALSE, pages |-> Len(f.pages)]
    ELSE [text    |-> Strip(Join([i \in 1..Len(f.pages) |-> f.pages[i].text], <<"\n">>)),
          scanned |-> \E i \in 1..Len(f.pages) :
                          Strip(f.pages[i].text) = <<>> /\ f.pages[i].images,
          pages   |-> Len(f.pages)]

\* _read_pdf_pdfminer: no pdfminer, or any failure of extract_text, gives ""
ReadPdfPdfminer(f, caps) ==
    IF "pdfminer" \notin caps THEN <<>>
    ELSE IF ~f.readable \/ ~f.wellformed THEN <<>>
    ELSE Strip(f.miner)

NOTE_CSV == "csv decoded to text"
NOTE_XLSX == "excel parsed to text"
NOTE_DOCX == "docx parsed"
NOTE_SCANNED == "pdf likely scanned (no selectable text)"
NOTE_FALLBACK == "parsed by pdfminer (fallback)"
NOTE_DECODE == "best-effort decode"

\* lines 159-172: the PDF branch
ExtractPdf(f, caps) ==
    LET p     == ReadPdfPymupdf(f, caps)
        note1 == IF p.scanned /\ p.text = <<>> THEN NOTE_SCANNED ELSE ""
        fb    == IF p.text = <<>> THEN ReadPdfPdfminer(f, caps) ELSE <<>>
        used  == p.text = <<>> /\ fb # <<>>
    IN  [raised |-> FALSE,
         text   |-> IF used THEN fb ELSE p.text,
         engine |-> IF used THEN "pdfminer" ELSE "pymupdf",
         note   |-> IF used /\ note1 = "" THEN NOTE_FALLBACK ELSE note1,
         pages  |-> p.pages,
         miner  |-> p.text = <<>>]

\* lines 131-182: the branch taken for the extension
ExtractBranch(f, caps) ==
    LET ext  == LowerExt(f.ext)
        Plain(r, engine, note) ==
            [raised |-> r.raised, text |-> r.text, engine |-> engine,
             note |-> note, pages |-> 0, miner |-> FALSE]
        Soft(t, engine, note) ==
            [raised |-> FALSE, text |-> t, engine |-> engine,
             note |-> note, pages |-> 0, miner |-> FALSE]
    IN  CASE ext \in {".txt", ".md"} -> Plain(ReadTxt(f), "text", "")
          [] ext = ".csv" -> Plain(ReadTxt(f), "csv", NOTE_CSV)
          [] ext \in {".xlsx", ".xlsm", ".xls"} -> Soft(ReadXlsx(f, caps), "xlsx", NOTE_XLSX)
          [] ext = ".docx" -> Soft(ReadDocx(f, caps), "docx", NOTE_DOCX)
          [] ext = ".pdf" -> ExtractPdf(f, caps)
          [] OTHER -> IF f.readable
                      THEN Soft(SafeDecode(f.bytes), "text", NOTE_DECODE)
                      ELSE Soft(<<>>, "text", "")

\* extract_text_from_file: [raised, text, meta]; miner tells whether the
\* fallback parser was called
ExtractTextFromFile(f, caps) ==
    LET b   == ExtractBranch(f, caps)
        txt == Strip(b.text)
    IN  [raised |-> b.raised,
         text   |-> IF b.raised THEN <<>> ELSE txt,
         miner  |-> b.miner,
         meta   |-> [ext |-> LowerExt(f.ext), note |-> b.note, engine |-> b.engine,
                     pages |-> b.pages, chars |-> IF b.raised THEN 0 ELSE Len(txt)]]

----------------------------------------------------------------------------
(* One call of extract_text_from_file                                       *)

\* pages of a PDF
MaxPages == 2

BaseFile ==
    [ext |-> "", readable |-> TRUE, wellformed |-> TRUE, bytes |-> <<>>,
     paras |-> <<>>, sheets |-> <<>>, pages |-> <<>>, miner |-> <<>>]

TextFiles ==
    { [BaseFile EXCEPT !.ext = e, !.readable = r, !.bytes = b] :
        e \in {".txt", ".TXT", ".md", ".csv", ".bin", ""},
        r \in BOOLEAN,
        b \in { <<>>, <<"a", "b">>, <<" ", "a", BAD, "\n">>, <<BAD>>, <<" ", "\n">> } }

DocxFiles ==
    { [BaseFile EXCEPT !.ext = e, !.readable = r, !.wellformed = w, !.paras = ps] :
        e \in {".docx", ".DOCX"}, r \in BOOLEAN, w \in BOOLEAN,
        ps \in { <<>>, << <<"a">>, <<>>, <<"b">> >>, << <<" ">> >> } }

XlsxFiles ==
    { [BaseFile EXCEPT !.ext = e, !.readable = r, !.wellformed = w, !.sheets = sh] :
        e \in {".xlsx", ".xlsm", ".xls"}, r \in BOOLEAN, w \in BOOLEAN,
        sh \in { <<>>,
                 << [title |-> <<"s">>,
                     rows |-> << << <<"a">>, NONE >>, << <<"b">> >> >>] >> } }

PdfPages ==
    { [text |-> <<"p">>, images |-> FALSE, broken |-> FALSE],
      [text |-> <<>>, images |-> TRUE, broken |-> FALSE],
      [text |-> <<" ">>, images |-> FALSE, broken |-> FALSE],
      [text |-> <<>>, images |-> FALSE, broken |-> TRUE] }

PdfFiles ==
    { [BaseFile EXCEPT !.ext = e, !.readable = r, !.wellformed = w,
                       !.pages = pg, !.miner = m] :
        e \in {".pdf", ".Pdf"}, r \in BOOLEAN, w \in BOOLEAN,
        pg \in UNION {[1..k -> PdfPages] : k \in 0..MaxPages},
        m \in { <<>>, <<"m", " ">> } }

Files == TextFiles \cup DocxFiles \cup XlsxFiles \cup PdfFiles

Caps == {"openpyxl", "docx", "fitz", "pdfminer"}

NoResult == [raised |-> FALSE, text |-> <<>>, miner |-> FALSE,
             meta |-> [ext |-> "", note |-> "", engine |-> "", pages |-> 0, chars |-> 0]]

IdleExtract ==
    /\ xfile = BaseFile
    /\ xcaps = {}
    /\ xres = NoResult
    /\ xpc = "idle"

InitExtract ==
    /\ xfile \in Files
    /\ xcaps \in SUBSET Caps
    /\ xres = NoResult
    /\ xpc = "call"

\* extract_text_from_file(path)
Extract ==
    /\ xpc = "call"
    /\ xres' = ExtractTextFromFile(xfile, xcaps)
    /\ xpc' = IF xres'.raised THEN "raised" ELSE "returned"
    /\ UNCHANGED <<xfile, xcaps>>

----------------------------------------------------------------------------
(* vectorstore.py                                                           *)

\* the embedding provider, an opaque function of the text: texts are told
\* apart by their length, and vectors of two providers are unrelated
Embed(fn, text) == [fn |-> fn, key |-> Len(text)]

\* the backend's distance between two vectors (smaller is nearer)
Distance(u, v) ==
    IF u.fn = v.fn
    THEN (IF u.key >= v.key THEN u.key - v.key ELSE v.key - u.key)
    ELSE u.key + v.key + 1

\* lines 14-22: the provider chosen at import
ChooseEmbedFn(onnxOk, stOk) ==
    IF onnxOk THEN "onnx" ELSE IF stOk THEN "st" ELSE "none"

NoCollections == [n \in {} |-> 0]

EmptyMeta == [n \in {} |-> 0]

\* dict.get(key, default)
Get(m, key, default) == IF key \in DOMAIN m THEN m[key] ELSE default

\* line 38
IsCached(name) == name \in DOMAIN collections

\* line 39 with the handle of whichever name was cached first
CacheLookup_Any(name) ==
    collections[CHOOSE n \in DOMAIN collections :
                    \A m \in DOMAIN collections :
                        collections[n].oid <= collections[m].oid]

\* line 39
CacheLookup(name) == collections[name]

\* _client_once and _get_collection as one step: the handle, and the module
\* state and the store directory after the call
GetCollection(name) ==
    IF IsCached(name)
    THEN [col |-> CacheLookup(name), client |-> client, collections |-> collections,
          disk |-> disk, nextObj |-> nextObj, made |-> made]
    ELSE LET fresh  == client = 0
             cl     == IF fresh THEN nextObj ELSE client
             obj    == IF fresh THEN nextObj + 1 ELSE nextObj
             col    == [name |-> name, ef |-> embedFn, oid |-> obj]
         IN  [col |-> col,
              client |-> cl,
              collections |-> (name :> col) @@ collections,
              disk |-> IF name \in DOMAIN disk THEN disk
                       ELSE (name :> [space |-> "cosine", records |-> <<>>]) @@ disk,
              nextObj |-> obj + 1,
              made |-> [clients |-> IF fresh THEN Append(made.clients, cl)
                                    ELSE made.clients,
                        handles |-> Append(made.handles, col)]]

\* lines 52-58 without the padding
NormMetas_NoPad(texts, metadatas) ==
    IF metadatas.none THEN [i \in 1..Len(texts) |-> EmptyMeta]
    ELSE IF Len(metadatas.list) > Len(texts) THEN SubSeq(metadatas.list, 1, Len(texts))
    ELSE metadatas.list

\* lines 52-58: one metadata per text
NormMetas(texts, metadatas) ==
    LET given == metadatas.list
    IN  IF metadatas.none THEN [i \in 1..Len(texts) |-> EmptyMeta]
        ELSE IF Len(given) # Len(texts)
        THEN IF Len(given) < Len(texts)
             THEN given \o [i \in 1..(Len(texts) - Len(given)) |-> EmptyMeta]
             ELSE SubSeq(given, 1, Len(texts))
        ELSE given

\* line 59
NewIds(texts) == [i \in 1..Len(texts) |-> nextId + i - 1]

\* the backend's add with the new records put before the old ones
BackendAdd_Front(dsk, col, ids, docs, metas, given, call) ==
    [dsk EXCEPT ![col.name].records =
        [i \in 1..Len(ids) |->
            [id |-> ids[i], text |-> docs[i], meta |-> metas[i],
             emb |-> Embed(col.ef, docs[i]), col |-> given, call |-> call]] \o @]

\* the backend's add through handle col: one record per id, the vector made
\* by the handle's embedding function; without one, or with lists of unequal
\* lengths, the call fails
BackendAdd(dsk, col, ids, docs, metas, given, call) ==
    [dsk EXCEPT ![col.name].records =
        @ \o [i \in 1..Len(ids) |->
                 [id |-> ids[i], text |-> docs[i], meta |-> metas[i],
                  emb |-> Embed(col.ef, docs[i]), col |-> given, call |-> call]]]

\* add_docs(texts, metadatas, collection); call numbers this ingestion
AddDocs(texts, metadatas, collection, call) ==
    IF texts = <<>>
    THEN /\ lastCall' = [op |-> "add", collection |-> collection, called |-> FALSE,
                     raised |-> FALSE, ret |-> 0, texts |-> texts, given |-> metadatas,
                     ids |-> <<>>, docs |-> <<>>, metas |-> <<>>]
         /\ UNCHANGED <<client, collections, disk, nextId, nextObj, made>>
    ELSE LET g     == GetCollection(collection)
             metas == NormMetas(texts, metadatas)
             ids   == NewIds(texts)
             fails == g.col.ef = "none" \/ Len(metas) # Len(ids)
         IN  /\ client' = g.client
             /\ collections' = g.collections
             /\ nextObj' = g.nextObj
             /\ made' = g.made
             /\ nextId' = IF fails THEN nextId ELSE nextId + Len(texts)
             /\ disk' = IF fails THEN g.disk
                        ELSE BackendAdd(g.disk, g.col, ids, texts, metas, collection, call)
             /\ lastCall' = [op |-> "add", collection |-> collection, called |-> TRUE,
                         raised |-> fails, ret |-> IF fails THEN 0 ELSE Len(texts),
                         texts |-> texts, given |-> metadatas,
                         ids |-> ids, docs |-> texts, metas |-> metas]

\* seq ordered by ascending key, equal keys in their order in seq (list.sort,
\* and the backend's ranking)
StableSort(seq, key) ==
    LET n      == Len(seq)
        Pos(i) == 1 + Cardinality({j \in 1..n :
                        key[j] < key[i] \/ (key[j] = key[i] /\ j < i)})
    IN  [p \in 1..n |-> seq[CHOOSE i \in 1..n : Pos(i) = p]]

\* seq[:m] for m >= 0
Prefix(seq, m) == SubSeq(seq, 1, Min2(m, Len(seq)))

\* line 67 with one result more than asked
QueryLimit_OneMore(k) == Max2(1, k) + 1

\* line 67: n_results
QueryLimit(k) == Max2(1, k)

\* the backend's similarity search through handle col: the n nearest records,
\* nearest first
BackendQuery(dsk, col, query_text, n) ==
    LET recs == dsk[col.name].records
        qv   == Embed(col.ef, query_text)
        dist == [i \in 1..Len(recs) |-> Distance(qv, recs[i].emb)]
        hit  == [i \in 1..Len(recs) |->
                    [text |-> recs[i].text, metadata |-> recs[i].meta,
                     distance |-> dist[i], id |-> recs[i].id]]
    IN  Prefix(StableSort(hit, dist), n)

\* query(query_text, k, collection)
Query(query_text, k, collection) ==
    LET g     == GetCollection(collection)
        fails == g.col.ef = "none"
        res   == IF fails THEN <<>>
                 ELSE BackendQuery(g.disk, g.col, query_text, QueryLimit(k))
    IN  /\ client' = g.client
        /\ collections' = g.collections
        /\ nextObj' = g.nextObj
        /\ made' = g.made
        /\ disk' = g.disk
        /\ lastCall' = [op |-> "query", collection |-> collection, k |-> k,
                        raised |-> fails, results |-> res, qfn |-> g.col.ef,
                        seen |-> g.col.name]
        /\ UNCHANGED nextId

\* line 99: the last non-empty filename, else the last filename
LastFilename(filenames) ==
    LET named == {i \in 1..Len(filenames) : filenames[i] # ""}
    IN  IF named # {} THEN filenames[SetMax(named)]
        ELSE IF filenames # <<>> THEN filenames[Len(filenames)] ELSE ""

\* line 108
RecentLimit(k) == Max2(1, k)

\* lines 101-107 without the sort
RecentHits_Unsorted(recs, lastfn) ==
    LET kept == SelectSeq(recs, LAMBDA r :
                        "filename" \in DOMAIN r.meta /\ r.meta.filename = lastfn)
    IN  [i \in 1..Len(kept) |->
             [text |-> kept[i].text, metadata |-> kept[i].meta, id |-> kept[i].id]]

\* lines 101-107: the records bearing that filename, by ascending chunk index
\* (id is kept beside each hit to tell which record it came from)
RecentHits(recs, lastfn) ==
    LET kept == SelectSeq(recs, LAMBDA r :
                        "filename" \in DOMAIN r.meta /\ r.meta.filename = lastfn)
        hits == [i \in 1..Len(kept) |->
                    [text |-> kept[i].text, metadata |-> kept[i].meta, id |-> kept[i].id]]
    IN  StableSort(hits, [i \in 1..Len(kept) |-> Get(kept[i].meta, "chunk", 0)])

\* lines 91-108 on the records the backend's get returns, in storage order
RecentOf(recs, k) ==
    IF recs = <<>> THEN <<>>
    ELSE LET filenames == [i \in 1..Len(recs) |-> Get(recs[i].meta, "filename", "")]
         IN  Prefix(RecentHits(recs, LastFilename(filenames)), RecentLimit(k))

\* recent_chunks(k, collection)
Recent(k, collection) ==
    LET g    == GetCollection(collection)
        recs == g.disk[g.col.name].records
    IN  /\ client' = g.client
        /\ collections' = g.collections
        /\ nextObj' = g.nextObj
        /\ made' = g.made
        /\ disk' = g.disk
        /\ lastCall' = [op |-> "recent", collection |-> collection, k |-> k,
                        raised |-> FALSE, results |-> RecentOf(recs, k),
                        seen |-> g.col.name]
        /\ UNCHANGED nextId

----------------------------------------------------------------------------
(* The store API under direct calls                                         *)

\* records held by the store directory
MaxRecords == 2

CollNames == {"default", "docs"}

TextA == <<"x">>

TextB == <<"y", "y", "y">>

AddTexts == { <<>>, <<TextA>>, <<TextB>>, <<TextB, TextA>> }

MetaList ==
    << [filename |-> "f.txt", chunk |-> 1], [filename |-> "g.txt"],
       [filename |-> "", chunk |-> 0] >>

AddMetas == { NoList } \cup { SomeList(SubSeq(MetaList, 1, n)) : n \in 0..Len(MetaList) }

QueryTexts == { TextA, <<"y", "y">> }

Ks == {-1, 0, 1, 2}

RECURSIVE SumRecords(_, _)
SumRecords(dsk, names) ==
    IF names = {} THEN 0
    ELSE LET n == CHOOSE m \in names : TRUE
         IN  Len(dsk[n].records) + SumRecords(dsk, names \ {n})

TotalRecords == SumRecords(disk, DOMAIN disk)

NoCall == [op |-> "none", collection |-> "", raised |-> FALSE]

\* the module state of a process that has imported vectorstore
FreshProcess(fn) ==
    /\ procUp = TRUE
    /\ embedFn = fn
    /\ client = 0
    /\ collections = NoCollections

IdleStore ==
    /\ procUp = FALSE
    /\ embedFn = "none"
    /\ client = 0
    /\ collections = NoCollections
    /\ disk = NoCollections
    /\ nextId = 1
    /\ nextObj = 1
    /\ made = [clients |-> <<>>, handles |-> <<>>]
    /\ lastCall = NoCall

\* an empty store directory and a process whose first provider loaded
InitStore ==
    /\ FreshProcess(ChooseEmbedFn(TRUE, TRUE))
    /\ disk = NoCollections
    /\ nextId = 1
    /\ nextObj = 1
    /\ made = [clients |-> <<>>, handles |-> <<>>]
    /\ lastCall = NoCall

ApiAdd ==
    \E texts \in AddTexts, metadatas \in AddMetas, c \in CollNames :
        /\ procUp
        /\ TotalRecords + Len(texts) <= MaxRecords
        /\ AddDocs(texts, metadatas, c, nextId)
        /\ UNCHANGED <<procUp, embedFn>>

ApiQuery ==
    \E q \in QueryTexts, k \in Ks, c \in CollNames :
        /\ procUp
        /\ Query(q, k, c)
        /\ UNCHANGED <<procUp, embedFn>>

ApiRecent ==
    \E k \in Ks, c \in CollNames :
        /\ procUp
        /\ Recent(k, c)
        /\ UNCHANGED <<procUp, embedFn>>

----------------------------------------------------------------------------
(* Restarts, the provider fallback and tools/rag.py                         *)

\* tools/rag.py line 7
COLLECTION == "local_docs"

\* the embedding function of a collection opened without one: the backend's
\* default, its ONNX MiniLM
BackendDefaultEf == "onnx"

EmbedNames == {"default", COLLECTION}

\* identifiers the caller of rag_upsert gives (doc_id or the filename)
LegacyIds == {-1, -2}

IdleLegacy ==
    /\ envSet = FALSE
    /\ legacyDisk = NoCollections

\* collection.upsert: a record of the same id is replaced, else appended
BackendUpsert(recs, rec) ==
    IF \E i \in 1..Len(recs) : recs[i].id = rec.id
    THEN [i \in 1..Len(recs) |-> IF recs[i].id = rec.id THEN rec ELSE recs[i]]
    ELSE Append(recs, rec)

\* tools/rag.py lines 9-10 and 12-17 on the directory dsk: the collection is
\* opened with no embedding function and no metadata, then one item upserted
LegacyUpsertOn(dsk, id, text, metadata) ==
    LET opened == IF COLLECTION \in DOMAIN dsk THEN dsk
                  ELSE (COLLECTION :> [space |-> "l2", records |-> <<>>]) @@ dsk
        rec    == [id |-> id, text |-> text, meta |-> metadata,
                   emb |-> Embed(BackendDefaultEf, text), col |-> COLLECTION, call |-> 0]
    IN  [opened EXCEPT ![COLLECTION].records = BackendUpsert(@, rec)]

\* the store directory is empty and no process runs
InitEmbed ==
    /\ procUp = FALSE
    /\ embedFn = "none"
    /\ client = 0
    /\ collections = NoCollections
    /\ disk = NoCollections
    /\ nextId = 1
    /\ nextObj = 1
    /\ made = [clients |-> <<>>, handles |-> <<>>]
    /\ lastCall = NoCall
    /\ envSet \in BOOLEAN
    /\ legacyDisk = NoCollections

\* a process starts with nothing constructed: vectorstore.py lines 13-25
Start ==
    \E onnxOk \in BOOLEAN, stOk \in BOOLEAN :
        /\ ~procUp
        /\ procUp' = TRUE
        /\ embedFn' = ChooseEmbedFn(onnxOk, stOk)
        /\ client' = 0
        /\ collections' = NoCollections
        /\ nextObj' = 1
        /\ made' = [clients |-> <<>>, handles |-> <<>>]
        /\ UNCHANGED <<disk, nextId, lastCall, legacyVars>>

\* the process ends; the store directory stays
Stop ==
    /\ procUp
    /\ procUp' = FALSE
    /\ UNCHANGED <<embedFn, client, collections, disk, nextId, nextObj, made,
                   lastCall, legacyVars>>

EmbedAdd ==
    \E c \in EmbedNames, text \in {TextA, TextB} :
        /\ procUp
        /\ TotalRecords < MaxRecords
        /\ AddDocs(<<text>>, NoList, c, nextId)
        /\ UNCHANGED <<procUp, embedFn, legacyVars>>

EmbedQuery ==
    \E c \in EmbedNames :
        /\ procUp
        /\ Query(TextA, 1, c)
        /\ UNCHANGED <<procUp, embedFn, legacyVars>>

\* tool_router.py lines 42-47: the legacy upload, through rag_upsert
LegacyUpsert ==
    \E id \in LegacyIds :
        /\ procUp
        /\ IF envSet
           THEN /\ TotalRecords < MaxRecords
                /\ disk' = LegacyUpsertOn(disk, id, TextA, [filename |-> "f.txt"])
                /\ UNCHANGED legacyDisk
           ELSE /\ SumRecords(legacyDisk, DOMAIN legacyDisk) < MaxRecords
                /\ legacyDisk' = LegacyUpsertOn(legacyDisk, id, TextA, [filename |-> "f.txt"])
                /\ UNCHANGED disk
        /\ lastCall' = [op |-> "upsert", collection |-> COLLECTION, raised |-> FALSE]
        /\ UNCHANGED <<procUp, embedFn, client, collections, nextId, nextObj, made, envSet>>

----------------------------------------------------------------------------
(* Threads calling _get_collection                                          *)

\* threads of the server's pool
NumThreads == 2

Threads == 1..NumThreads

NoHandle == [name |-> "", ef |-> "", oid |-> 0]

IdleThreads ==
    /\ tpc = [t \in Threads |-> "idle"]
    /\ tname = [t \in Threads |-> ""]
    /\ tcl = [t \in Threads |-> 0]
    /\ tcol = [t \in Threads |-> NoHandle]

\* add_docs, query or recent_chunks enters _get_collection(name)
TCall(t) ==
    \E name \in CollNames :
        /\ tpc[t] = "idle"
        /\ tpc' = [tpc EXCEPT ![t] = "L38"]
        /\ tname' = [tname EXCEPT ![t] = name]
        /\ tcl' = [tcl EXCEPT ![t] = 0]
        /\ tcol' = [tcol EXCEPT ![t] = NoHandle]
        /\ UNCHANGED storeVars

\* lines 38-39: the cached handle, if there is one
TLookup(t) ==
    /\ tpc[t] = "L38"
    /\ IF IsCached(tname[t])
       THEN /\ tcol' = [tcol EXCEPT ![t] = CacheLookup(tname[t])]
            /\ tpc' = [tpc EXCEPT ![t] = "ret"]
       ELSE /\ tpc' = [tpc EXCEPT ![t] = "L29"]
            /\ UNCHANGED tcol
    /\ UNCHANGED <<storeVars, tname, tcl>>

\* line 29: the test of _client_once
TClientTest(t) ==
    /\ tpc[t] = "L29"
    /\ tpc' = [tpc EXCEPT ![t] = IF client = 0 THEN "L30" ELSE "L35"]
    /\ UNCHANGED <<storeVars, tname, tcl, tcol>>

\* lines 30-34: a client is constructed and stored in _client
TClientMake(t) ==
    /\ tpc[t] = "L30"
    /\ client' = nextObj
    /\ nextObj' = nextObj + 1
    /\ made' = [made EXCEPT !.clients = Append(@, nextObj)]
    /\ tpc' = [tpc EXCEPT ![t] = "L35"]
    /\ UNCHANGED <<procUp, embedFn, collections, disk, nextId, lastCall, tname, tcl, tcol>>

\* line 35: return _client
TClientReturn(t) ==
    /\ tpc[t] = "L35"
    /\ tcl' = [tcl EXCEPT ![t] = client]
    /\ tpc' = [tpc EXCEPT ![t] = "L40"]
    /\ UNCHANGED <<storeVars, tname, tcol>>

\* lines 40-44: get_or_create_collection gives a new handle
TCreate(t) ==
    /\ tpc[t] = "L40"
    /\ LET col == [name |-> tname[t], ef |-> embedFn, oid |-> nextObj]
       IN  /\ tcol' = [tcol EXCEPT ![t] = col]
           /\ made' = [made EXCEPT !.handles = Append(@, col)]
    /\ nextObj' = nextObj + 1
    /\ disk' = IF tname[t] \in DOMAIN disk THEN disk
               ELSE (tname[t] :> [space |-> "cosine", records |-> <<>>]) @@ disk
    /\ tpc' = [tpc EXCEPT ![t] = "L45"]
    /\ UNCHANGED <<procUp, embedFn, client, collections, nextId, lastCall, tname, tcl>>

\* line 45: the handle is stored in _collections
TStore(t) ==
    /\ tpc[t] = "L45"
    /\ collections' = (tname[t] :> tcol[t]) @@ collections
    /\ tpc' = [tpc EXCEPT ![t] = "ret"]
    /\ UNCHANGED <<procUp, embedFn, client, disk, nextId, nextObj, made, lastCall,
                   tname, tcl, tcol>>

\* line 46 (or 39): the caller goes on with col, and later ends
TReturn(t) ==
    /\ tpc[t] = "ret"
    /\ tpc' = [tpc EXCEPT ![t] = "idle"]
    /\ UNCHANGED <<storeVars, tname, tcl, tcol>>

----------------------------------------------------------------------------
(* rag_routes.py: rag_upload                                                *)

\* requests begun in one run
MaxRequests == 1

\* candidates of one request
MaxFiles == 3

\* os.path.splitext of the saved path, which ends with the upload's filename
ExtOf(filename) ==
    CASE filename = "a.txt" -> ".txt"
      [] filename = "b.txt" -> ".txt"
      [] filename = "c.docx" -> ".docx"
      [] OTHER -> ""

Upload(filename, size, file) == [filename |-> filename, size |-> size, file |-> file]

TextUpload(filename, bytes) ==
    Upload(filename, Len(bytes), [BaseFile EXCEPT !.bytes = bytes])

\* a text below min_chunk_chars, one of one chunk, one of two
Hello == <<"h", "e", "l", "l", "o">>

OneChunkText == Rep("a", 45)

TwoChunkText == Rep("b", 1250)

\* the uploads a browser may send, by name
UploadKeys == {"zero", "blank", "hello", "noname", "gone", "baddocx",
               "two_a", "one_a", "one_b"}

UploadOf(key) ==
    CASE key = "zero"    -> TextUpload("a.txt", <<>>)
      [] key = "blank"   -> TextUpload("a.txt", <<" ", "\n">>)
      [] key = "hello"   -> TextUpload("a.txt", Hello)
      [] key = "noname"  -> TextUpload("", Hello)
      [] key = "gone"    -> Upload("a.txt", 3, [BaseFile EXCEPT !.readable = FALSE])
      [] key = "baddocx" -> Upload("c.docx", 9, [BaseFile EXCEPT !.wellformed = FALSE])
      [] key = "two_a"   -> TextUpload("a.txt", TwoChunkText)
      [] key = "one_a"   -> TextUpload("a.txt", OneChunkText)
      [] key = "one_b"   -> TextUpload("b.txt", OneChunkText)

\* line 116: the collection of the form, by default
UploadCollections == {"default"}

\* k of rag_recent
RecentKs == {0, 2}

UploadRequests == UNION { [1..n -> UploadKeys] : n \in 0..MaxFiles }

\* the file at dest_path once saved
SavedFile(up) == [up.file EXCEPT !.ext = ExtOf(up.filename)]

\* line 164
Preview(text) ==
    IF Len(text) > 300 THEN SubSeq(text, 1, 300) \o <<"...">> ELSE text

\* lines 166-174
Info(up, saved_name, meta_hint, text) ==
    [filename |-> up.filename, saved_as |-> saved_name, bytes |-> up.size,
     ext |-> meta_hint.ext, engine |-> meta_hint.engine, note |-> meta_hint.note,
     chars_extracted |-> Len(text)]

\* lines 178, 184, 196
IndexedEntry(up, n, info, text) ==
    [filename |-> up.filename, chunks |-> n, info |-> info, preview |-> Preview(text)]

\* line 187 with the ordinals counted from 1
ChunkMetas_FromOne(up, chunks) ==
    [i \in 1..Len(chunks) |-> [filename |-> up.filename, chunk |-> i]]

\* line 187
ChunkMetas(up, chunks) ==
    [i \in 1..Len(chunks) |-> [filename |-> up.filename, chunk |-> i - 1]]

\* line 85 taken as never true
IsEmptyUpload_Never(up) == FALSE

\* line 85: nothing was read from the upload
IsEmptyUpload(up) == up.size = 0

\* line 182 taken as always true
HasChunks_Always(chunks) == TRUE

\* line 182: the chunk list is not empty
HasChunks(chunks) == chunks # <<>>

NoFile == [filename |-> "", size |-> 0, saved |-> FALSE, extracted |-> FALSE,
           chunked |-> FALSE, chars |-> 0, nchunks |-> 0, addCalled |-> FALSE,
           error |-> 0]

IdleUpload ==
    /\ upPc = "idle"
    /\ upFiles = <<>>
    /\ upIdx = 0
    /\ upCollection = ""
    /\ indexed = <<>>
    /\ totalChunks = 0
    /\ upStatus = 0
    /\ uploadDir = <<>>
    /\ nextSave = 1
    /\ upCount = 0
    /\ upLast = NoFile

\* an empty store directory, an empty UPLOAD_DIR and a process whose ONNX
\* provider loaded, or none
InitUpload ==
    /\ \E onnxOk \in BOOLEAN : FreshProcess(ChooseEmbedFn(onnxOk, FALSE))
    /\ disk = NoCollections
    /\ nextId = 1
    /\ nextObj = 1
    /\ made = [clients |-> <<>>, handles |-> <<>>]
    /\ lastCall = NoCall
    /\ IdleUpload

\* lines 128-148: a request arrives with its candidates
UpBegin ==
    /\ procUp
    /\ upPc \in {"idle", "done"}
    /\ upCount < MaxRequests
    /\ \E c \in UploadCollections, files \in UploadRequests :
        /\ upCount' = upCount + 1
        /\ upCollection' = c
        /\ upFiles' = files
        /\ upIdx' = 1
        /\ indexed' = <<>>
        /\ totalChunks' = 0
        /\ upLast' = NoFile
        /\ IF files = <<>>
           THEN upPc' = "done" /\ upStatus' = 400
           ELSE upPc' = "save" /\ upStatus' = 0
        /\ UNCHANGED <<uploadDir, nextSave, storeVars>>

\* _save_streaming lines 63-71: the destination file is created
UpOpen ==
    /\ upPc = "save"
    /\ LET up == UploadOf(upFiles[upIdx])
       IN  IF up.filename = ""
           THEN /\ upPc' = "done"
                /\ upStatus' = 400
                /\ upLast' = [NoFile EXCEPT !.size = up.size, !.error = 400]
                /\ UNCHANGED <<uploadDir, nextSave>>
           ELSE /\ upPc' = "reading"
                /\ uploadDir' = Append(uploadDir,
                        [saved_as |-> <<nextSave, up.filename>>, bytes |-> 0])
                /\ nextSave' = nextSave + 1
                /\ UNCHANGED <<upStatus, upLast>>
    /\ UNCHANGED <<upFiles, upIdx, upCollection, indexed, totalChunks, upCount, storeVars>>

\* the loop goes to the next candidate, or lines 198-201 answer
UpAdvance(entry, n) ==
    /\ indexed' = Append(indexed, entry)
    /\ totalChunks' = totalChunks + n
    /\ upIdx' = upIdx + 1
    /\ IF upIdx < Len(upFiles)
       THEN upPc' = "save" /\ upStatus' = 0
       ELSE upPc' = "done" /\ upStatus' = 200

\* the request ends with an HTTPException
UpFail(code) ==
    /\ upPc' = "done"
    /\ upStatus' = code
    /\ UNCHANGED <<indexed, totalChunks, upIdx>>

\* from the last read of _save_streaming (lines 74-94) through lines 152-196:
\* no await lies between them
UpFinish ==
    /\ upPc = "reading"
    /\ LET up     == UploadOf(upFiles[upIdx])
           saved  == uploadDir[Len(uploadDir)]
           x      == ExtractTextFromFile(SavedFile(up), Caps)
           text   == CleanText(x.text)
           chunks == ChunkText(text, DEFAULT_CHUNK_SIZE, DEFAULT_OVERLAP,
                               DEFAULT_MIN_CHUNK_CHARS)
           info   == Info(up, saved.saved_as, x.meta, text)
           seen   == [NoFile EXCEPT !.filename = up.filename, !.size = up.size]
       IN  IF IsEmptyUpload(up)
           THEN /\ uploadDir' = SubSeq(uploadDir, 1, Len(uploadDir) - 1)
                /\ UpFail(400)
                /\ upLast' = [seen EXCEPT !.error = 400]
                /\ UNCHANGED storeVars
           ELSE /\ uploadDir' = [uploadDir EXCEPT ![Len(uploadDir)].bytes = up.size]
                /\ IF x.raised
                   THEN /\ UpFail(500)
                        /\ upLast' = [seen EXCEPT !.saved = TRUE, !.extracted = TRUE,
                                                  !.error = 500]
                        /\ UNCHANGED storeVars
                   ELSE IF text = <<>>
                   THEN /\ UpAdvance(IndexedEntry(up, 0, info, text), 0)
                        /\ upLast' = [seen EXCEPT !.saved = TRUE, !.extracted = TRUE]
                        /\ UNCHANGED storeVars
                   ELSE IF ~HasChunks(chunks)
                   THEN /\ UpAdvance(IndexedEntry(up, 0, info, text), 0)
                        /\ upLast' = [seen EXCEPT !.saved = TRUE, !.extracted = TRUE,
                                                  !.chunked = TRUE, !.chars = Len(text)]
                        /\ UNCHANGED storeVars
                   ELSE /\ AddDocs(chunks, SomeList(ChunkMetas(up, chunks)),
                                   upCollection, nextId)
                        /\ UNCHANGED <<procUp, embedFn>>
                        /\ IF lastCall'.raised
                           THEN UpFail(500)
                           ELSE UpAdvance(IndexedEntry(up, Len(chunks), info, text),
                                          Len(chunks))
                        /\ upLast' = [seen EXCEPT !.saved = TRUE, !.extracted = TRUE,
                                         !.chunked = TRUE, !.chars = Len(text),
                                         !.nchunks = Len(chunks), !.addCalled = TRUE,
                                         !.error = IF lastCall'.raised THEN 500 ELSE 0]
    /\ UNCHANGED <<upFiles, upCollection, nextSave, upCount>>

\* tool_router.py lines 33-38: rag_recent, from a thread of the pool
UpRecent ==
    \E k \in RecentKs, c \in UploadCollections :
        /\ procUp
        /\ Recent(k, c)
        /\ UNCHANGED <<procUp, embedFn, uploadVars>>

----------------------------------------------------------------------------
(* rag_upload: requests interleaving at their awaits                        *)

\* requests in flight together
NumRequests == 2

Requests == 1..NumRequests

\* candidates of one of these requests
MaxBatch == 2

ConcurrentKeys == {"two_a", "one_b", "zero"}

ConcurrentBatches == UNION { [1..n -> ConcurrentKeys] : n \in 0..MaxBatch }

NoRequest == [pc |-> "idle", files |-> <<>>, idx |-> 0, collection |-> "",
              indexed |-> <<>>, total |-> 0, status |-> 0, saved |-> <<>>]

IdleConcurrent ==
    /\ reqs = [r \in Requests |-> NoRequest]
    /\ addLog = <<>>

\* lines 150-151 and _save_streaming lines 63-73 for candidate q.idx: the
\* request as it stands at its next await, or ended with 400
OpenFile(q) ==
    LET up == UploadOf(q.files[q.idx])
    IN  IF up.filename = ""
        THEN [q EXCEPT !.pc = "done", !.status = 400]
        ELSE [q EXCEPT !.pc = "reading", !.saved = <<nextSave, up.filename>>]

\* UPLOAD_DIR once q has come to its next await
DirAfterOpen(dir, q) ==
    IF q.pc = "reading" THEN Append(dir, [saved_as |-> q.saved, bytes |-> 0]) ELSE dir

\* the loop goes to the next candidate and opens its file, or lines 198-201
\* answer
Advance(q, entry, n) ==
    LET q2 == [q EXCEPT !.indexed = Append(@, entry), !.total = @ + n, !.idx = @ + 1]
    IN  IF q.idx < Len(q.files) THEN OpenFile(q2)
        ELSE [q2 EXCEPT !.pc = "done", !.status = 200]

\* lines 128-136: a request arrives and awaits its form
CBegin(r) ==
    /\ reqs[r].pc = "idle"
    /\ \E c \in UploadCollections, files \in ConcurrentBatches :
          reqs' = [reqs EXCEPT ![r] =
                      [NoRequest EXCEPT !.pc = "form", !.files = files,
                                        !.idx = 1, !.collection = c]]
    /\ UNCHANGED <<addLog, uploadDir, nextSave, storeVars>>

\* lines 137-151 and _save_streaming lines 63-73: up to the first read
CForm(r) ==
    /\ reqs[r].pc = "form"
    /\ LET q == IF reqs[r].files = <<>>
                THEN [reqs[r] EXCEPT !.pc = "done", !.status = 400]
                ELSE OpenFile(reqs[r])
       IN  /\ reqs' = [reqs EXCEPT ![r] = q]
           /\ uploadDir' = DirAfterOpen(uploadDir, q)
           /\ nextSave' = IF q.pc = "reading" THEN nextSave + 1 ELSE nextSave
    /\ UNCHANGED <<addLog, storeVars>>

\* UPLOAD_DIR without the file saved as name
Removed(dir, name) == SelectSeq(dir, LAMBDA e : e.saved_as # name)

\* UPLOAD_DIR with size bytes written to the file saved as name
Written(dir, name, size) ==
    [i \in 1..Len(dir) |-> IF dir[i].saved_as = name
                            THEN [dir[i] EXCEPT !.bytes = size] ELSE dir[i]]

\* from the last read of _save_streaming (lines 74-94) through lines 152-196
\* and on to the next await or the answer: nothing is awaited in between
CFinish(r) ==
    /\ reqs[r].pc = "reading"
    /\ LET q      == reqs[r]
           up     == UploadOf(q.files[q.idx])
           x      == ExtractTextFromFile(SavedFile(up), Caps)
           text   == CleanText(x.text)
           chunks == ChunkText(text, DEFAULT_CHUNK_SIZE, DEFAULT_OVERLAP,
                               DEFAULT_MIN_CHUNK_CHARS)
           info   == Info(up, q.saved, x.meta, text)
           kept   == Written(uploadDir, q.saved, up.size)
           Ends(q2, dir) ==
               /\ reqs' = [reqs EXCEPT ![r] = q2]
               /\ uploadDir' = DirAfterOpen(dir, q2)
               /\ nextSave' = IF q2.pc = "reading" THEN nextSave + 1 ELSE nextSave
       IN  IF IsEmptyUpload(up)
           THEN /\ Ends([q EXCEPT !.pc = "done", !.status = 400],
                        Removed(uploadDir, q.saved))
                /\ UNCHANGED <<addLog, storeVars>>
           ELSE IF x.raised
           THEN /\ Ends([q EXCEPT !.pc = "done", !.status = 500], kept)
                /\ UNCHANGED <<addLog, storeVars>>
           ELSE IF text = <<>> \/ ~HasChunks(chunks)
           THEN /\ Ends(Advance(q, IndexedEntry(up, 0, info, text), 0), kept)
                /\ UNCHANGED <<addLog, storeVars>>
           ELSE /\ AddDocs(chunks, SomeList(ChunkMetas(up, chunks)), q.collection, nextId)
                /\ UNCHANGED <<procUp, embedFn>>
                /\ IF lastCall'.raised
                   THEN /\ Ends([q EXCEPT !.pc = "done", !.status = 500], kept)
                        /\ UNCHANGED addLog
                   ELSE /\ Ends(Advance(q, IndexedEntry(up, Len(chunks), info, text),
                                        Len(chunks)), kept)
                        /\ addLog' = Append(addLog,
                               [request |-> r, collection |-> q.collection,
                                filename |-> up.filename, ids |-> lastCall'.ids])

----------------------------------------------------------------------------
(* Specifications                                                           *)

NextChunk == ChunkIter /\ UNCHANGED <<extractVars, storeVars, legacyVars, threadVars, uploadVars, concurrentVars>>

InitSpecChunk == InitChunk /\ IdleExtract /\ IdleStore /\ IdleLegacy /\ IdleThreads /\ IdleUpload /\ IdleConcurrent

SpecChunk == InitSpecChunk /\ [][NextChunk]_vars

NextLimit == ChunkCount /\ UNCHANGED <<extractVars, storeVars, legacyVars, threadVars, uploadVars, concurrentVars>>

InitSpecLimit == InitLimit /\ IdleExtract /\ IdleStore /\ IdleLegacy /\ IdleThreads /\ IdleUpload /\ IdleConcurrent

SpecLimit == InitSpecLimit /\ [][NextLimit]_vars

NextExtract == Extract /\ UNCHANGED <<chunkVars, storeVars, legacyVars, threadVars, uploadVars, concurrentVars>>

InitSpecExtract == IdleChunk /\ InitExtract /\ IdleStore /\ IdleLegacy /\ IdleThreads /\ IdleUpload /\ IdleConcurrent

SpecExtract == InitSpecExtract /\ [][NextExtract]_vars

NextStore ==
    \/ ApiAdd /\ UNCHANGED <<chunkVars, extractVars, legacyVars, threadVars, uploadVars, concurrentVars>>
    \/ ApiQuery /\ UNCHANGED <<chunkVars, extractVars, legacyVars, threadVars, uploadVars, concurrentVars>>
    \/ ApiRecent /\ UNCHANGED <<chunkVars, extractVars, legacyVars, threadVars, uploadVars, concurrentVars>>

InitSpecStore == IdleChunk /\ IdleExtract /\ InitStore /\ IdleLegacy /\ IdleThreads /\ IdleUpload /\ IdleConcurrent

SpecStore == InitSpecStore /\ [][NextStore]_vars

NextEmbed ==
    \/ Start /\ UNCHANGED <<chunkVars, extractVars, threadVars, uploadVars, concurrentVars>>
    \/ Stop /\ UNCHANGED <<chunkVars, extractVars, threadVars, uploadVars, concurrentVars>>
    \/ EmbedAdd /\ UNCHANGED <<chunkVars, extractVars, threadVars, uploadVars, concurrentVars>>
    \/ EmbedQuery /\ UNCHANGED <<chunkVars, extractVars, threadVars, uploadVars, concurrentVars>>
    \/ LegacyUpsert /\ UNCHANGED <<chunkVars, extractVars, threadVars, uploadVars, concurrentVars>>

InitSpecEmbed == IdleChunk /\ IdleExtract /\ InitEmbed /\ IdleThreads /\ IdleUpload /\ IdleConcurrent

SpecEmbed == InitSpecEmbed /\ [][NextEmbed]_vars

NextThreads ==
    \E t \in Threads :
        \/ TCall(t) /\ UNCHANGED <<chunkVars, extractVars, legacyVars, uploadVars, concurrentVars>>
        \/ TLookup(t) /\ UNCHANGED <<chunkVars, extractVars, legacyVars, uploadVars, concurrentVars>>
        \/ TClientTest(t) /\ UNCHANGED <<chunkVars, extractVars, legacyVars, uploadVars, concurrentVars>>
        \/ TClientMake(t) /\ UNCHANGED <<chunkVars, extractVars, legacyVars, uploadVars, concurrentVars>>
        \/ TClientReturn(t) /\ UNCHANGED <<chunkVars, extractVars, legacyVars, uploadVars, concurrentVars>>
        \/ TCreate(t) /\ UNCHANGED <<chunkVars, extractVars, legacyVars, uploadVars, concurrentVars>>
        \/ TStore(t) /\ UNCHANGED <<chunkVars, extractVars, legacyVars, uploadVars, concurrentVars>>
        \/ TReturn(t) /\ UNCHANGED <<chunkVars, extractVars, legacyVars, uploadVars, concurrentVars>>

InitSpecThreads == IdleChunk /\ IdleExtract /\ InitStore /\ IdleLegacy /\ IdleThreads /\ IdleUpload /\ IdleConcurrent

SpecThreads == InitSpecThreads /\ [][NextThreads]_vars

NextUpload ==
    \/ UpBegin /\ UNCHANGED <<chunkVars, extractVars, legacyVars, threadVars, concurrentVars>>
    \/ UpOpen /\ UNCHANGED <<chunkVars, extractVars, legacyVars, threadVars, concurrentVars>>
    \/ UpFinish /\ UNCHANGED <<chunkVars, extractVars, legacyVars, threadVars, concurrentVars>>
    \/ UpRecent /\ UNCHANGED <<chunkVars, extractVars, legacyVars, threadVars, concurrentVars>>

InitSpecUpload == IdleChunk /\ IdleExtract /\ InitUpload /\ IdleLegacy /\ IdleThreads /\ IdleConcurrent

SpecUpload == InitSpecUpload /\ [][NextUpload]_vars

\* the locals of the single-request handler, which these requests do not use
UploadLocals == <<upPc, upFiles, upIdx, upCollection, indexed, totalChunks, upStatus,
                  upCount, upLast>>

NextConcurrent ==
    \E r \in Requests :
        \/ CBegin(r) /\ UNCHANGED <<chunkVars, extractVars, legacyVars, threadVars, UploadLocals>>
        \/ CForm(r) /\ UNCHANGED <<chunkVars, extractVars, legacyVars, threadVars, UploadLocals>>
        \/ CFinish(r) /\ UNCHANGED <<chunkVars, extractVars, legacyVars, threadVars, UploadLocals>>

\* an empty store directory, an empty UPLOAD_DIR, the provider loaded and no
\* request begun
InitConcurrent ==
    /\ InitStore
    /\ IdleUpload
    /\ IdleConcurrent

InitSpecConcurrent == IdleChunk /\ IdleExtract /\ InitConcurrent /\ IdleLegacy /\ IdleThreads

SpecConcurrent == InitSpecConcurrent /\ [][NextConcurrent]_vars

----------------------------------------------------------------------------
\* C1: every loop iteration that goes on to another one leaves start strictly
\* greater than it found it (forward progress of the window).
C1_ForwardProgress ==
    [][(cpc = "loop" /\ cpc' = "loop") => cstart' > cstart]_vars

\* the call returned through the end of the text, not through MAX_CHUNKS
ReturnedWhole == cpc = "done" /\ ~LimitHit(cchunks)

\* position p of the cleaned text lies in window w
InWindow(p, w) == w.s <= p /\ p < w.e

\* c is the text of window w less whitespace at its two edges
IsWindowLessEdges(c, w) ==
    \E a \in 0..(w.e - w.s - Len(c)) :
        /\ c = Slice(ctext, w.s + a, w.s + a + Len(c))
        /\ \A q \in (w.s..(w.s + a - 1)) \cup ((w.s + a + Len(c))..(w.e - 1)) :
              IsSpace(ctext[q + 1])
        /\ c # <<>> => ~IsSpace(c[1]) /\ ~IsSpace(c[Len(c)])

\* the characters of window w from its first to its last non-whitespace one
SolidSpan(w) ==
    LET solid == {q \in w.s..(w.e - 1) : ~IsSpace(ctext[q + 1])}
    IN  IF solid = {} THEN 0 ELSE SetMax(solid) - SetMin(solid) + 1

\* C5 (as claimed): once the chunker has returned, every character position of
\* the cleaned text lies inside the window of a returned chunk.
C5_ReturnedChunksCoverText ==
    ReturnedWhole =>
        \A p \in 0..(Len(ctext) - 1) :
            \E i \in 1..Len(cwins) : cwins[i].kept /\ InWindow(p, cwins[i])

\* C5 (amended): once the chunker has returned, every character position of the
\* cleaned text lies inside a window the loop examined; a window is returned,
\* less its edge whitespace, when that leaves min_chunk_chars characters, and
\* is dropped otherwise, so only positions of dropped windows can be missing.
C5_WindowsCoverText ==
    ReturnedWhole =>
        /\ \A p \in 0..(Len(ctext) - 1) :
              \E i \in 1..Len(cwins) : InWindow(p, cwins[i])
        /\ \A i \in 1..Len(cwins) :
              IF cwins[i].kept
              THEN /\ cwins[i].at \in 1..Len(cchunks)
                   /\ IsWindowLessEdges(cchunks[cwins[i].at], cwins[i])
                   /\ SolidSpan(cwins[i]) >= cparams.min_chunk_chars
              ELSE SolidSpan(cwins[i]) < cparams.min_chunk_chars
        /\ Len(cchunks) = Cardinality({i \in 1..Len(cwins) : cwins[i].kept})

\* C5 witness: a returned call of several windows, one dropped and one returned,
\* with a position that only the dropped window holds
C5_Witness ==
    /\ ReturnedWhole
    /\ \E i, j \in 1..Len(cwins) : cwins[i].kept /\ ~cwins[j].kept
    /\ \E p \in 0..(Len(ctext) - 1) :
          \A i \in 1..Len(cwins) : InWindow(p, cwins[i]) => ~cwins[i].kept

----------------------------------------------------------------------------
\* C10: extract_text_from_file ends in an error exactly when the file cannot
\* be read, whatever the extension.
C10_ErrorIffUnreadable ==
    xpc \in {"returned", "raised"} => ((xpc = "raised") <=> ~xfile.readable)

----------------------------------------------------------------------------
\* the record of the store directory with identifier id was added under name c
StoredUnder(id, c) ==
    /\ c \in DOMAIN disk
    /\ \E i \in 1..Len(disk[c].records) :
          disk[c].records[i].id = id /\ disk[c].records[i].col = c

\* every record lies in the collection named by the add that stored it, and the
\* last query or recent returned records of its own collection only
IsolatedState ==
    /\ \A c \in DOMAIN disk : \A i \in 1..Len(disk[c].records) :
          disk[c].records[i].col = c
    /\ lastCall.op \in {"query", "recent"} =>
          \A i \in 1..Len(lastCall.results) :
              StoredUnder(lastCall.results[i].id, lastCall.collection)

\* C6: over any sequence of add, query and recent calls, query(c) and recent(c)
\* return only records stored by an add under c, a call's first reference to a
\* name creates that collection, and no call alters another collection.
C6_CollectionIsolation ==
    [][ /\ IsolatedState'
        /\ lastCall'.op # "add" \/ lastCall'.called => lastCall'.collection \in DOMAIN disk'
        /\ \A c \in DOMAIN disk :
              c # lastCall'.collection => c \in DOMAIN disk' /\ disk'[c] = disk[c]
      ]_vars

\* C6 witness: a query or recent on one collection gave records while another
\* collection holds records too
C6_Witness ==
    /\ lastCall.op \in {"query", "recent"}
    /\ lastCall.results # <<>>
    /\ \E c \in DOMAIN disk : c # lastCall.collection /\ disk[c].records # <<>>

\* the metadata add_docs owes text i
MetaOwed(given, i) ==
    IF ~given.none /\ i <= Len(given.list) THEN given.list[i] ELSE EmptyMeta

\* C7: add never fails on a length mismatch: the backend is handed one id, one
\* text and one metadata per chunk, metadata i being metadatas[i] when given and
\* empty otherwise, the records stored carry all three, and len(chunks) is
\* returned.
C7_AddPadsAndTruncates ==
    lastCall.op = "add" =>
        LET n    == Len(lastCall.texts)
            recs == disk[lastCall.collection].records
        IN  /\ ~lastCall.raised
            /\ lastCall.ret = n
            /\ lastCall.called <=> n > 0
            /\ Len(lastCall.ids) = n /\ Len(lastCall.docs) = n /\ Len(lastCall.metas) = n
            /\ lastCall.docs = lastCall.texts
            /\ \A i \in 1..n : lastCall.metas[i] = MetaOwed(lastCall.given, i)
            /\ \A i, j \in 1..n : i # j => lastCall.ids[i] # lastCall.ids[j]
            /\ lastCall.called =>
                  /\ Len(recs) >= n
                  /\ \A i \in 1..n :
                        LET r == recs[Len(recs) - n + i]
                        IN  /\ r.id = lastCall.ids[i]
                            /\ r.text = lastCall.texts[i]
                            /\ r.meta = MetaOwed(lastCall.given, i)

\* C7 witness: an add of more texts than metadatas reached the backend
C7_Witness ==
    /\ lastCall.op = "add"
    /\ lastCall.called
    /\ ~lastCall.given.none
    /\ Len(lastCall.given.list) < Len(lastCall.texts)
    /\ Len(lastCall.given.list) > 0

\* the results of a query come nearest first
NearestFirst(results) ==
    \A i, j \in 1..Len(results) : i < j => results[i].distance <= results[j].distance

\* C8 (as claimed): for every integer k, query returns no more than k results,
\* in non-decreasing order of distance.
C8_AtMostKResults ==
    lastCall.op = "query" =>
        Len(lastCall.results) <= lastCall.k /\ NearestFirst(lastCall.results)

\* C8 (amended): for every integer k, query returns no more than max(1, k)
\* results, in non-decreasing order of distance.
C8_AtMostClampedK ==
    lastCall.op = "query" =>
        /\ Len(lastCall.results) <= (IF lastCall.k < 1 THEN 1 ELSE lastCall.k)
        /\ NearestFirst(lastCall.results)

\* C8 witness: a query with k below 1 on a collection of several records gave
\* one result
C8_Witness ==
    /\ lastCall.op = "query"
    /\ lastCall.k < 1
    /\ Len(lastCall.results) = 1
    /\ Len(disk[lastCall.collection].records) > 1

----------------------------------------------------------------------------
\* the vectors of a collection were all made by one embedding function
OneFunction(recs) ==
    \A i, j \in 1..Len(recs) : recs[i].emb.fn = recs[j].emb.fn

\* C3: in every state of the store directory, across restarts and over both
\* writers, the vectors of one collection, and the query vectors compared with
\* them, were all made by the same embedding function.
C3_OneEmbeddingSpace ==
    /\ \A c \in DOMAIN disk : OneFunction(disk[c].records)
    /\ \A c \in DOMAIN legacyDisk : OneFunction(legacyDisk[c].records)
    /\ (lastCall.op = "query" /\ ~lastCall.raised) =>
          \A i \in 1..Len(disk[lastCall.seen].records) :
              disk[lastCall.seen].records[i].emb.fn = lastCall.qfn

\* C4: under any interleaving of first-use calls, one client is constructed at
\* most, one handle per collection name at most, and a caller that has its
\* handle holds the cached one.
C4_InitIdempotent ==
    /\ Len(made.clients) <= 1
    /\ \A i, j \in 1..Len(made.handles) :
          made.handles[i].name = made.handles[j].name => i = j
    /\ \A t \in Threads :
          tpc[t] = "ret" => IsCached(tname[t]) /\ tcol[t] = collections[tname[t]]

----------------------------------------------------------------------------
\* what rag_recent saw: the records of the collection, in storage order
SeenRecords == disk[lastCall.seen].records

\* the ingestion that added the last record
LastIngestion == SeenRecords[Len(SeenRecords)].call

\* the filename of the document ingested last
LastDocument == SeenRecords[Len(SeenRecords)].meta.filename

\* A and then B were ingested, and recent was called
RecentAfterTwo ==
    /\ lastCall.op = "recent"
    /\ lastCall.seen \in DOMAIN disk
    /\ SeenRecords # <<>>
    /\ \E i \in 1..Len(SeenRecords) : SeenRecords[i].call # LastIngestion

\* the record a hit came from
RecordOf(hit) == CHOOSE r \in {SeenRecords[i] : i \in 1..Len(SeenRecords)} : r.id = hit.id

OrdinalsAscend(res) ==
    \A i, j \in 1..Len(res) : i < j => res[i].metadata.chunk <= res[j].metadata.chunk

\* C2 as stated: after A and then B, recent(k) returns only records of B's
\* ingestion, in ascending order of chunk, and at most k of them.
C2_RecentReturnsOnlyLastIngestion ==
    RecentAfterTwo =>
        LET res == lastCall.results
        IN  /\ \A i \in 1..Len(res) : RecordOf(res[i]).call = LastIngestion
            /\ OrdinalsAscend(res)
            /\ Len(res) <= lastCall.k

\* C2 as the code has it: after A and then B, recent(k) returns only records
\* bearing B's filename (B's own when no earlier record bears that filename),
\* in non-decreasing order of chunk, the lowest ordinals first, and
\* min(max(1, k), number of records bearing the filename) of them.
C2_RecentReturnsLastFilename ==
    RecentAfterTwo =>
        LET res     == lastCall.results
            bearing == {i \in 1..Len(SeenRecords) :
                           SeenRecords[i].meta.filename = LastDocument}
            taken   == {res[i].id : i \in 1..Len(res)}
        IN  /\ \A i \in 1..Len(res) :
                  /\ res[i].metadata.filename = LastDocument
                  /\ \E j \in bearing : /\ SeenRecords[j].id = res[i].id
                                        /\ SeenRecords[j].text = res[i].text
                                        /\ SeenRecords[j].meta = res[i].metadata
            /\ (\A j \in bearing : SeenRecords[j].call = LastIngestion) =>
                  \A i \in 1..Len(res) : RecordOf(res[i]).call = LastIngestion
            /\ OrdinalsAscend(res)
            /\ \A i \in 1..Len(res) : \A j \in bearing :
                  SeenRecords[j].id \notin taken =>
                      res[i].metadata.chunk <= SeenRecords[j].meta.chunk
            /\ Cardinality(taken) = Len(res)
            /\ Len(res) = Min2(Max2(1, lastCall.k), Cardinality(bearing))

\* recent(2) after a.txt (two chunks) and then a.txt again (one chunk): two of
\* three records are returned, one of each ingestion
C2_Witness ==
    /\ RecentAfterTwo
    /\ lastCall.k = 2
    /\ Len(lastCall.results) = 2
    /\ Len(SeenRecords) = 3
    /\ RecordOf(lastCall.results[1]).call # RecordOf(lastCall.results[2]).call

\* the candidate a step of rag_upload finishes with
FinishedUpload == UploadOf(upFiles[upIdx])

\* the chunks rag_upload gets for an upload
ChunksOfUpload(up) ==
    ChunkText(CleanText(ExtractTextFromFile(SavedFile(up), Caps).text),
              DEFAULT_CHUNK_SIZE, DEFAULT_OVERLAP, DEFAULT_MIN_CHUNK_CHARS)

\* a saved file whose text was extracted
Extracted(up) == up.size > 0 /\ ~ExtractTextFromFile(SavedFile(up), Caps).raised

\* C9: a file whose cleaned text is empty, or whose chunk list is empty, is
\* reported with chunks = 0 and its info, add_docs is not called for it, no
\* error is raised and the loop goes on to the next file; add_docs is called
\* for a file exactly when its chunk list is not empty.
C9_SoftOutcomesAreNotErrors ==
    [][(upPc = "reading" /\ upPc' # "reading") =>
          LET up     == FinishedUpload
              chunks == IF Extracted(up) THEN ChunksOfUpload(up) ELSE <<>>
          IN  /\ upLast'.addCalled <=> chunks # <<>>
              /\ chunks # <<>> =>
                    /\ lastCall'.op = "add"
                    /\ lastCall'.called
                    /\ lastCall'.texts = chunks
              /\ chunks = <<>> =>
                    /\ lastCall' = lastCall
                    /\ disk' = disk
              /\ (Extracted(up) /\ chunks = <<>>) =>
                    /\ upStatus' \in {0, 200}
                    /\ upLast'.error = 0
                    /\ Len(indexed') = Len(indexed) + 1
                    /\ indexed'[Len(indexed')].filename = up.filename
                    /\ indexed'[Len(indexed')].chunks = 0
                    /\ indexed'[Len(indexed')].info.filename = up.filename
                    /\ indexed'[Len(indexed')].info.bytes = up.size
                    /\ totalChunks' = totalChunks
                    /\ upIdx' = upIdx + 1
                    /\ upIdx < Len(upFiles) => upPc' = "save"
                    /\ upIdx = Len(upFiles) => upPc' = "done" /\ upStatus' = 200
       ]_vars

\* a request answered 200 whose first file had no text, whose second gave no
\* chunk and whose third was added
C9_Witness ==
    /\ upPc = "done"
    /\ upStatus = 200
    /\ Len(indexed) = 3
    /\ indexed[1].chunks = 0 /\ indexed[1].info.chars_extracted = 0
    /\ indexed[2].chunks = 0 /\ indexed[2].info.chars_extracted > 0
    /\ indexed[3].chunks > 0
    /\ upLast.addCalled
    /\ totalChunks = indexed[3].chunks

----------------------------------------------------------------------------
\* the PDF outcome of a returned call: which engine gave the final text
PdfReturned == xpc = "returned" /\ xres.meta.ext = ".pdf"

PdfOutcome ==
    IF xres.text = <<>> THEN "no text found"
    ELSE IF xres.miner THEN "fallback parser used"
    ELSE "primary"

\* C11: for a PDF the fallback parser is invoked exactly when the primary
\* engine yields no text; when both yield nothing the text is empty and the
\* note is a non-empty explanation; 'likely scanned', 'fallback parser used'
\* and 'no text found' are told apart by the note; and the engine reported is
\* the one that produced the text.
C11_PdfDiagnosticForEveryOutcome ==
    PdfReturned =>
        LET p == ReadPdfPymupdf(xfile, xcaps)
        IN  /\ xres.miner <=> p.text = <<>>
            /\ xres.text = <<>> => xres.meta.note # ""
            /\ PdfOutcome = "fallback parser used" =>
                  /\ xres.meta.note = NOTE_FALLBACK
                  /\ xres.meta.engine = "pdfminer"
                  /\ xres.text = ReadPdfPdfminer(xfile, xcaps)
            /\ PdfOutcome = "no text found" =>
                  xres.meta.note \notin {NOTE_FALLBACK, ""}
            /\ PdfOutcome = "primary" =>
                  /\ xres.meta.engine = "pymupdf"
                  /\ xres.text = p.text

----------------------------------------------------------------------------
\* C12: whatever the input, _chunk_text returns no more than 50,000 chunks:
\* the loop stops once 50,000 chunks have been emitted.
C12_AtMostMaxChunks == ccount <= MAX_CHUNKS

----------------------------------------------------------------------------
\* C13: every chunk the chunker holds is stripped and has at least
\* min_chunk_chars characters; a text shorter than min_chunk_chars, an empty
\* text and a text of whitespace only return no chunk.
C13_ChunksMeetMinimum ==
    /\ \A i \in 1..Len(cchunks) :
          /\ Strip(cchunks[i]) = cchunks[i]
          /\ Len(Strip(cchunks[i])) >= cparams.min_chunk_chars
    /\ (cpc = "done" /\ Len(craw) < cparams.min_chunk_chars) => cchunks = <<>>
    /\ (cpc = "done" /\ \A i \in 1..Len(craw) : IsSpace(craw[i])) => cchunks = <<>>

\* a call that returned chunks after dropping a window under the minimum
C13_Witness ==
    /\ cpc = "done"
    /\ cchunks # <<>>
    /\ \E i \in 1..Len(cwins) :
          /\ ~cwins[i].kept
          /\ \E q \in cwins[i].s..(cwins[i].e - 1) : ~IsSpace(ctext[q + 1])

----------------------------------------------------------------------------
\* the saved names in UPLOAD_DIR
SavedNames(dir) == {dir[i].saved_as : i \in 1..Len(dir)}

----------------------------------------------------------------------------
\* the records of collection c in store directory dsk
RecordsIn(dsk, c) == IF c \in DOMAIN dsk THEN dsk[c].records ELSE <<>>

\* C15: the step of rag_upload that ingests a document of n >= 1 chunks
\* appends n records to the collection, the i-th carrying the i-th chunk of
\* the chunker, the document's filename and the ordinal i - 1, so the ordinals
\* are 0..n-1, each once, and sorting the records by ordinal gives the chunks
\* in the chunker's order.
C15_OrdinalsFollowChunkOrder ==
    [][(upPc = "reading" /\ upPc' # "reading"
          /\ upLast'.addCalled /\ upLast'.error = 0) =>
          LET up     == FinishedUpload
              chunks == ChunksOfUpload(up)
              n      == Len(chunks)
              old    == RecordsIn(disk, upCollection)
              new    == RecordsIn(disk', upCollection)
              added  == SubSeq(new, Len(old) + 1, Len(new))
              sorted == StableSort(added, [i \in 1..Len(added) |-> added[i].meta.chunk])
          IN  /\ n >= 1
              /\ Len(new) = Len(old) + n
              /\ SubSeq(new, 1, Len(old)) = old
              /\ \A i \in 1..n :
                    /\ added[i].text = chunks[i]
                    /\ added[i].meta = [filename |-> up.filename, chunk |-> i - 1]
              /\ {added[i].meta.chunk : i \in 1..n} = 0..(n - 1)
              /\ [i \in 1..n |-> sorted[i].text] = chunks
              /\ indexed'[Len(indexed')].chunks = n
       ]_vars

\* a document of two chunks was ingested after another document
C15_Witness ==
    /\ upLast.addCalled
    /\ upLast.error = 0
    /\ upLast.nchunks = 2
    /\ lastCall.op = "add"
    /\ Len(RecordsIn(disk, upCollection)) >= 3
    /\ RecordsIn(disk, upCollection)[Len(RecordsIn(disk, upCollection))].meta.chunk = 1

----------------------------------------------------------------------------
\* the add_docs calls that stored into collection c, in order of completion
AddsInto(c) == SelectSeq(addLog, LAMBDA e : e.collection = c)

\* C16: however the requests interleave, the storage order of a collection is
\* the records of its add_docs calls, call after call in order of completion,
\* each call's records in one run; and the filename recent_chunks takes as the
\* last one is that of the document whose add completed last.
C16_IngestionsAreContiguous ==
    \A c \in DOMAIN disk :
        LET recs == disk[c].records
            adds == AddsInto(c)
        IN  /\ [i \in 1..Len(recs) |-> recs[i].id]
                  = Flatten([a \in 1..Len(adds) |-> adds[a].ids])
            /\ \A i, k \in 1..Len(recs) :
                  (i < k /\ recs[i].call = recs[k].call) =>
                      \A j \in i..k : recs[j].call = recs[i].call
            /\ \A a \in 1..Len(adds) : \A i \in 1..Len(recs) :
                  recs[i].id \in {adds[a].ids[n] : n \in 1..Len(adds[a].ids)} =>
                      /\ recs[i].call = adds[a].ids[1]
                      /\ recs[i].meta.filename = adds[a].filename
            /\ recs # <<>> =>
                  LastFilename([i \in 1..Len(recs) |-> Get(recs[i].meta, "filename", "")])
                      = adds[Len(adds)].filename

\* two requests whose adds alternate: the first request's two-chunk document,
\* then a document of the second request, then the first request's next one
C16_Witness ==
    /\ Len(addLog) >= 3
    /\ Len(addLog[1].ids) = 2
    /\ addLog[2].request # addLog[1].request
    /\ addLog[3].request = addLog[1].request
    /\ addLog[2].filename # addLog[1].filename
    /\ \E r \in Requests : reqs[r].pc = "reading"

====
